---- MODULE Spec2Model ----
(***************************************************************************)
(* Model of the template manager of assets/js/templates.js (class          *)
(* TemplateManager and the UI functions that drive it) over the browser's  *)
(* localStorage.                                                           *)
(*                                                                         *)
(* JavaScript values are modelled as follows.  An object is a function     *)
(* from the keys it has to their values, so a key that is absent and a key *)
(* that holds undefined are different objects that read the same.  In a    *)
(* string slot the value undefined is the token Undefined, a value that is *)
(* not a string (a JSON number) is the token NotAString, and JSON null is  *)
(* the token JsonNull.  Timestamps are clock readings (integers) and the   *)
(* null of lastUsed is Null.  A JSON text is modelled by the JSON value it *)
(* denotes; JSON.stringify drops the keys that hold undefined.             *)
(***************************************************************************)
EXTENDS Integers, Sequences, FiniteSets, TLC

VARIABLES templates, store, quotaExceeded, now, file, held, coordinator,
          requests, other, i18n, pre, preStore, last, track, steps

vars ==
  <<templates, store, quotaExceeded, now, file, held, coordinator, requests,
    other, i18n, pre, preStore, last, track, steps>>

(* ------------------------------ bounds --------------------------------- *)
MaxSteps == 3

(* ------------------------------ values --------------------------------- *)
Undefined == "undefined"
NotAString == "#123"
JsonNull == "null"
Null == -1

Keys ==
  {"id", "name", "description", "data", "endpoint", "method",
   "createdAt", "updatedAt", "usageCount", "lastUsed"}

StringKeys == {"name", "description", "data", "endpoint", "method"}

Suffixes == {"r1", "r2"}

Has(o, k) == k \in DOMAIN o

\* o[k] of JavaScript for the string-typed keys: undefined when the key is absent
Get(o, k) == IF Has(o, k) THEN o[k] ELSE Undefined

\* the key is absent or holds undefined
IsUndefined(o, k) == ~Has(o, k) \/ (k \in StringKeys /\ o[k] = Undefined)

\* { ...a, ...b }
Spread(a, b) ==
  [k \in DOMAIN a \cup DOMAIN b |-> IF k \in DOMAIN b THEN b[k] ELSE a[k]]

\* JSON.stringify of one object: keys holding undefined are omitted
StringifyObject(o) == [k \in {j \in DOMAIN o : ~IsUndefined(o, j)} |-> o[k]]

\* JSON.stringify(this.templates)
Stringify(tpls) == [i \in 1..Len(tpls) |-> StringifyObject(tpls[i])]

\* template.usageCount || 0
UsageOrZero(o) == IF Has(o, "usageCount") THEN o.usageCount ELSE 0

\* template.lastUsed || null
LastUsedOrNull(o) == IF Has(o, "lastUsed") THEN o.lastUsed ELSE Null

\* the migration step of loadTemplates applied to one parsed record
Migrate(o) ==
  Spread(o, [usageCount |-> UsageOrZero(o), lastUsed |-> LastUsedOrNull(o)])

\* a stored text that is not the JSON of a list: the document is one marker
\* telling what it is (empty text, unparseable text, JSON null, JSON object)
NotAList(what) == <<[json |-> what]>>

IsList(doc) == ~(Len(doc) = 1 /\ DOMAIN doc[1] = {"json"})

\* an element of a parsed list that is JSON null
NullEntry == [null |-> TRUE]

\* a loadTemplates without the migration step
loadTemplatesNoMigration(st) ==
  IF st = <<>> \/ ~IsList(st[1]) THEN <<>>
  ELSE IF \E i \in 1..Len(st[1]) : st[1][i] = NullEntry THEN <<>>
  ELSE st[1]

\* loadTemplates: the stored item is absent (<<>>) or one document (<<doc>>);
\* JSON.parse throwing, parsed.map not being a function and
\* template.usageCount of a null element all end in the catch, which
\* returns []
loadTemplates(st) ==
  IF st = <<>> \/ ~IsList(st[1]) THEN <<>>
  ELSE IF \E i \in 1..Len(st[1]) : st[1][i] = NullEntry THEN <<>>
  ELSE [i \in 1..Len(st[1]) |-> Migrate(st[1][i])]

\* a save that keeps the stored records the manager does not hold
saveTemplatesMerging(tpls, st, ok) ==
  [tpls |-> tpls,
   st |-> IF ok
          THEN <<SelectSeq(loadTemplates(st),
                           LAMBDA o : \A i \in 1..Len(tpls) : tpls[i].id # o.id)
                 \o Stringify(tpls)>>
          ELSE st]

\* saveTemplates: setItem stores the document, or throws (quota exceeded) and
\* the old item stays; the manager is the pair of its collection and the store
saveTemplates(tpls, st, ok) ==
  [tpls |-> tpls, st |-> IF ok THEN <<Stringify(tpls)>> ELSE st]

\* 'tpl_' + Date.now() + '_' + Math.random().toString(36).substr(2, 9)
generateId(t, r) == <<t, r>>

\* the record addTemplate constructs (method defaults to 'POST' when undefined)
NewTemplate(name, description, data, endpoint, method, t, r) ==
  [id |-> generateId(t, r), name |-> name, description |-> description,
   data |-> data, endpoint |-> endpoint,
   method |-> IF method = Undefined THEN "POST" ELSE method,
   createdAt |-> t, updatedAt |-> t, usageCount |-> 0, lastUsed |-> Null]

\* addTemplate: push the new record, then save
addTemplate(m, tpl, ok) == saveTemplates(Append(m.tpls, tpl), m.st, ok)

\* what addTemplate returns: the record; the result of saveTemplates is dropped
addTemplateReturns(m, tpl, ok) == tpl

\* this.templates.findIndex((t) => t.id === id), 0 for -1
FindIndex(tpls, id) ==
  IF \E i \in 1..Len(tpls) : tpls[i].id = id
  THEN CHOOSE i \in 1..Len(tpls) :
         tpls[i].id = id /\ \A j \in 1..(i - 1) : tpls[j].id # id
  ELSE 0

\* getTemplate: the index of the record find returns, 0 for undefined
getTemplate(tpls, id) == FindIndex(tpls, id)

\* a merge that forgets the existing record: { ...updates, updatedAt }
MergeReplace(tpl, updates, t) == Spread(updates, [updatedAt |-> t])

\* { ...this.templates[index], ...updates, updatedAt }
Merge(tpl, updates, t) == Spread(Spread(tpl, updates), [updatedAt |-> t])

\* updateTemplate: not found leaves the manager alone, else merge and save
updateTemplate(m, id, updates, t, ok) ==
  LET i == FindIndex(m.tpls, id)
  IN IF i = 0 THEN m
     ELSE saveTemplates([m.tpls EXCEPT ![i] = Merge(@, updates, t)], m.st, ok)

\* what updateTemplate returns: false, or the merged record
updateTemplateReturns(m, id, updates, t, ok) ==
  LET i == FindIndex(m.tpls, id)
  IN IF i = 0 THEN FALSE ELSE Merge(m.tpls[i], updates, t)

\* this.templates.splice(index, 1)
Splice(tpls, i) ==
  [j \in 1..(Len(tpls) - 1) |-> IF j < i THEN tpls[j] ELSE tpls[j + 1]]

\* a deleteTemplate without the not-found return: splice(-1, 1) removes the
\* last record
deleteTemplateNoGuard(m, id, ok) ==
  LET i == FindIndex(m.tpls, id)
  IN saveTemplates(Splice(m.tpls, IF i = 0 THEN Len(m.tpls) ELSE i), m.st, ok)

\* deleteTemplate: not found leaves the manager alone, else splice and save
deleteTemplate(m, id, ok) ==
  LET i == FindIndex(m.tpls, id)
  IN IF i = 0 THEN m ELSE saveTemplates(Splice(m.tpls, i), m.st, ok)

\* an incrementUsage that forgets this.saveTemplates()
incrementUsageNoSave(m, id, t, ok) ==
  LET i == FindIndex(m.tpls, id)
  IN IF i = 0 THEN m
     ELSE [m EXCEPT !.tpls[i] = [@ EXCEPT !.usageCount = @ + 1, !.lastUsed = t]]

\* incrementUsage: usageCount++ and lastUsed on the record getTemplate finds
incrementUsage(m, id, t, ok) ==
  LET i == getTemplate(m.tpls, id)
  IN IF i = 0 THEN m
     ELSE saveTemplates(
            [m.tpls EXCEPT ![i] =
               [@ EXCEPT !.usageCount = @ + 1, !.lastUsed = t]],
            m.st, ok)

\* clearAllTemplates
clearAllTemplates(m, ok) == saveTemplates(<<>>, m.st, ok)

(* --------------------------- export / import --------------------------- *)
\* exportTemplates: { version, exportDate, templates } as JSON
exportTemplates(tpls, t) ==
  [kind |-> "object", templatesType |-> "list", templates |-> Stringify(tpls),
   version |-> "1.0", exportDate |-> t]

\* typeof v === 'string'
IsString(v) == v \notin {Undefined, NotAString, JsonNull}

\* a validateTemplate that forgets the typeof check of the name
validateTemplateAnyName(e) ==
  /\ e # NullEntry
  /\ Get(e, "endpoint") \notin {Undefined, NotAString, JsonNull}
  /\ Get(e, "data") # Undefined

\* validateTemplate
validateTemplate(e) ==
  /\ e # NullEntry
  /\ IsString(Get(e, "name"))
  /\ IsString(Get(e, "endpoint"))
  /\ Get(e, "data") # Undefined

\* a default that is never taken
OrElseKeep(v, d) == v

\* v || d on a string slot
OrElse(v, d) == IF v \in {Undefined, "", JsonNull} THEN d ELSE v

\* this.templates.find(t => t.name === e.name && t.endpoint === e.endpoint)
FindDuplicate(tpls, e) ==
  LET same(i) == /\ Get(tpls[i], "name") = Get(e, "name")
                 /\ Get(tpls[i], "endpoint") = Get(e, "endpoint")
  IN IF \E i \in 1..Len(tpls) : same(i)
     THEN CHOOSE i \in 1..Len(tpls) : same(i) /\ \A j \in 1..(i - 1) : ~same(j)
     ELSE 0

\* the body of the forEach of importTemplates for the entry at position idx
ImportEntry(acc, e, idx, overwrite, t, r, ok) ==
  IF ~validateTemplate(e)
  THEN [acc EXCEPT !.errors = Append(@, idx), !.skipped = @ + 1]
  ELSE LET ex == FindDuplicate(acc.m.tpls, e)
       IN IF ex # 0
          THEN IF overwrite
               THEN [acc EXCEPT
                       !.m = updateTemplate(acc.m, acc.m.tpls[ex].id,
                               [description |-> Get(e, "description"),
                                data |-> e.data,
                                method |-> Get(e, "method")], t, ok),
                       !.imported = @ + 1,
                       !.writes = @ + 1,
                       !.replaced =
                          @ \cup {FindIndex(acc.m.tpls, acc.m.tpls[ex].id)}]
               ELSE [acc EXCEPT !.skipped = @ + 1]
          ELSE [acc EXCEPT
                  !.m = addTemplate(acc.m,
                          NewTemplate(e.name, OrElse(Get(e, "description"), ""),
                                      e.data, e.endpoint,
                                      OrElse(Get(e, "method"), "POST"), t, r),
                          ok),
                  !.imported = @ + 1,
                  !.writes = @ + 1]

RECURSIVE ImportEntries(_, _, _, _, _, _, _)
\* importData.templates.forEach(...) from position idx on
ImportEntries(acc, items, idx, overwrite, t, rs, ok) ==
  IF idx > Len(items) THEN acc
  ELSE ImportEntries(
         ImportEntry(acc, items[idx], idx, overwrite, t, rs[idx], ok),
         items, idx + 1, overwrite, t, rs, ok)

\* the positions of a payload whose entries can reach addTemplate, which draws
\* a random suffix
AddPositions(p) ==
  IF p.kind # "object" \/ p.templatesType # "list" THEN {}
  ELSE {i \in 1..Len(p.templates) : validateTemplate(p.templates[i])}

\* JSON.parse throws, or importData.templates is missing or not an array
ImportThrows(p) == p.kind # "object" \/ p.templatesType # "list"

\* an importTemplates that validates all entries first and throws on a bad one
importTemplatesAbortOnInvalid(m, p, overwrite, t, rs, ok) ==
  IF ImportThrows(p) \/ \E i \in 1..Len(p.templates) :
                          ~validateTemplate(p.templates[i])
  THEN [m |-> m, thrown |-> TRUE, imported |-> 0, skipped |-> 0,
        errors |-> <<>>, writes |-> 0, replaced |-> {}]
  ELSE ImportEntries(
         [m |-> m, thrown |-> FALSE, imported |-> 0, skipped |-> 0,
          errors |-> <<>>, writes |-> 0, replaced |-> {}],
         p.templates, 1, overwrite, t, rs, ok)

\* importTemplates: throws and leaves the manager alone, or processes the list
importTemplates(m, p, overwrite, t, rs, ok) ==
  IF ImportThrows(p)
  THEN [m |-> m, thrown |-> TRUE, imported |-> 0, skipped |-> 0,
        errors |-> <<>>, writes |-> 0, replaced |-> {}]
  ELSE ImportEntries(
         [m |-> m, thrown |-> FALSE, imported |-> 0, skipped |-> 0,
          errors |-> <<>>, writes |-> 0, replaced |-> {}],
         p.templates, 1, overwrite, t, rs, ok)

(* ------------------------------ inputs --------------------------------- *)
\* what the save dialog and the duplicate prompt pass to addTemplate
AddInputs ==
  { [name |-> "A", description |-> "", data |-> "d1", endpoint |-> "/gen",
     method |-> "POST"],
    [name |-> "B", description |-> "y", data |-> "d2",
     endpoint |-> "/validate", method |-> "GET"] }

\* what the edit form and the rename prompt pass to updateTemplate
UpdateInputs == { [name |-> "X"], [name |-> "A", description |-> "z"] }

\* partial fields a caller of the manager can pass to updateTemplate
PartialFields ==
  { [name |-> "X"],
    [id |-> <<0, "r2">>],
    [description |-> "z", usageCount |-> 7] }

UnknownId == <<-1, "r1">>

KnownIds(tpls) == {tpls[i].id : i \in 1..Len(tpls)}

\* import entries: a well-formed one whose (name, endpoint) is that of the
\* first add input, with no description and no method and a foreign id; a
\* well-formed one with the name of the first add input and another endpoint,
\* carrying the id the first add of a session can get; and malformed ones
EntryDup == [id |-> <<7, "r1">>, name |-> "A", endpoint |-> "/gen", data |-> "d3"]

EntrySameName ==
  [id |-> <<0, "r1">>, name |-> "A", description |-> "n", data |-> "d3",
   endpoint |-> "/validate", method |-> "PUT", usageCount |-> 5]

EntryNoName == [description |-> "n", data |-> "d3", endpoint |-> "/gen"]

EntryNumberName == [name |-> NotAString, data |-> "d3", endpoint |-> "/gen"]

EntryNoData == [name |-> "A", endpoint |-> "/gen"]

ListPayload(items) ==
  [kind |-> "object", templatesType |-> "list", templates |-> items]

ImportPayloads ==
  { [kind |-> "garbage"],
    [kind |-> "null"],
    [kind |-> "object", templatesType |-> "absent"],
    [kind |-> "object", templatesType |-> "object"],
    ListPayload(<<EntrySameName, EntryNoName>>),
    ListPayload(<<EntryNumberName, EntryDup>>),
    ListPayload(<<NullEntry, EntryNoData>>) }

TemplateA(r) == NewTemplate("A", "", "d1", "/gen", "POST", 0, r)

TemplateB(r) == NewTemplate("B", "y", "d2", "/validate", "GET", 0, r)

(* ------------------------ language coordinator ------------------------ *)
\* the codes of LANGUAGE_NAMES
SupportedLanguages == {"sr_RS_Latn", "sr_RS", "en"}

DEFAULT_LANGUAGE == "sr_RS_Latn"

\* a property name that the object literal LANGUAGE_NAMES inherits
InheritedKeys == {"constructor"}

\* !languageCode || !LANGUAGE_NAMES[languageCode] is false: the lookup is
\* truthy for the three codes and for an inherited property
HasLanguageName(code) ==
  code # Undefined /\ code \in SupportedLanguages \cup InheritedKeys

\* the window of handleLanguageClick, in milliseconds
DebounceWindow == 500

\* the coordinator after initializeFromStorage on the stored preference
\* (<<>> when the key is absent): the four variables of the closure, the
\* stored preference, the changes that await window.i18n.changeLanguage,
\* what showUnifiedNotification and dispatchLanguageChangeEvent have
\* emitted, and the number of changes that went past the three returns;
\* windowCurrentLanguage is the property currentLanguage of the global
\* object, which updateDocumentLanguage writes
initializeFromStorage(stored) ==
  [isChangingLanguage |-> FALSE,
   lastChangeTime |-> 0,
   currentLanguage |-> IF stored = <<>> THEN DEFAULT_LANGUAGE ELSE stored[1],
   windowCurrentLanguage |->
     IF stored = <<>> THEN DEFAULT_LANGUAGE ELSE stored[1],
   stored |-> stored,
   inFlight |-> <<>>,
   emitted |-> <<>>,
   accepted |-> 0]

\* a changeLanguage that ends without resetting isChangingLanguage
FinishNoFinally(c, code) ==
  [c EXCEPT
     !.emitted = @ \o <<[what |-> "notification", code |-> code],
                        [what |-> "languageChanged", code |-> code]>>]

\* the rest of changeLanguage after the await: one notification, one
\* languageChanged event, and the finally block
Finish(c, code) ==
  [c EXCEPT
     !.emitted = @ \o <<[what |-> "notification", code |-> code],
                        [what |-> "languageChanged", code |-> code]>>,
     !.isChangingLanguage = FALSE]

\* a changeLanguage without the isChangingLanguage return
changeLanguageReentrant(c, code, t, ok, hasI18n) ==
  IF ~HasLanguageName(code) \/ c.currentLanguage = code THEN c
  ELSE LET s == [c EXCEPT !.isChangingLanguage = TRUE, !.lastChangeTime = t,
                          !.currentLanguage = code,
                          !.windowCurrentLanguage = code, !.accepted = @ + 1]
       IN IF ~ok THEN [s EXCEPT !.isChangingLanguage = FALSE]
          ELSE IF hasI18n
               THEN [s EXCEPT !.stored = <<code>>,
                              !.inFlight = Append(@, code)]
               ELSE Finish([s EXCEPT !.stored = <<code>>], code)

\* changeLanguage(code) at time t up to its await, or to its end when
\* window.i18n is absent; ok tells whether localStorage.setItem succeeds,
\* and when it throws the catch and the finally blocks end the call
changeLanguage(c, code, t, ok, hasI18n) ==
  IF ~HasLanguageName(code) THEN c
  ELSE IF c.currentLanguage = code THEN c
  ELSE IF c.isChangingLanguage THEN c
  ELSE LET s == [c EXCEPT !.isChangingLanguage = TRUE, !.lastChangeTime = t,
                          !.currentLanguage = code,
                          !.windowCurrentLanguage = code, !.accepted = @ + 1]
       IN IF ~ok THEN [s EXCEPT !.isChangingLanguage = FALSE]
          ELSE IF hasI18n
               THEN [s EXCEPT !.stored = <<code>>,
                              !.inFlight = Append(@, code)]
               ELSE Finish([s EXCEPT !.stored = <<code>>], code)

\* a click handler without the window
handleLanguageClickNoWindow(c, code, t, ok, hasI18n) ==
  IF code = Undefined THEN c ELSE changeLanguage(c, code, t, ok, hasI18n)

\* handleLanguageClick on an item whose data-lang attribute is code
handleLanguageClick(c, code, t, ok, hasI18n) ==
  IF code = Undefined THEN c
  ELSE IF t - c.lastChangeTime < DebounceWindow THEN c
  ELSE changeLanguage(c, code, t, ok, hasI18n)

\* the promise of window.i18n.changeLanguage settles for the i-th awaiting
\* change (fulfilled or rejected: the inner catch goes on)
Settle(c, i) ==
  Finish([c EXCEPT !.inFlight = SubSeq(@, 1, i - 1) \o
                                SubSeq(@, i + 1, Len(@))],
         c.inFlight[i])

(* ------------------------------- I18n ---------------------------------- *)
\* this.fallbackLanguage
FallbackLanguage == "en"

\* the I18n object after init() on the stored preference: the current
\* language and the fallback are loaded; pending holds the calls of
\* changeLanguage that await loadLanguage, issued the language of the last
\* call that passed the validation, stored what the object wrote to
\* nbs_language
I18nInit(stored) ==
  LET lang == IF stored # <<>> /\ stored[1] \in SupportedLanguages
              THEN stored[1] ELSE DEFAULT_LANGUAGE
  IN [currentLanguage |-> lang,
      loadedLanguages |-> {lang, FallbackLanguage},
      pending |-> <<>>,
      stored |-> stored,
      issued |-> <<>>]

\* the rest of I18n.changeLanguage after the load: the language becomes
\* current and is stored, unless setItem throws
I18nApply(o, lang, ok) ==
  [o EXCEPT !.currentLanguage = lang,
            !.stored = IF ok THEN <<lang>> ELSE @]

\* I18n.changeLanguage(lang) up to its await, or to its end when the
\* language is loaded already
i18nChangeLanguage(o, lang, ok) ==
  IF lang \notin SupportedLanguages THEN o
  ELSE LET s == [o EXCEPT !.issued = <<lang>>]
       IN IF lang \in o.loadedLanguages THEN I18nApply(s, lang, ok)
          ELSE [s EXCEPT !.pending = Append(@, lang)]

\* loadLanguage of the i-th pending call ends, with the translations
\* (loaded) or in its catch, and the call goes on to its end
i18nLoadEnds(o, i, loaded, ok) ==
  LET lang == o.pending[i]
      s == [o EXCEPT !.pending = SubSeq(@, 1, i - 1) \o
                                 SubSeq(@, i + 1, Len(@)),
                     !.loadedLanguages =
                        IF loaded THEN @ \cup {lang} ELSE @]
  IN I18nApply(s, lang, ok)

(* ------------------------------ history -------------------------------- *)
\* what deleteTemplate returns: whether a record was removed
deleteTemplateReturns(m, id, ok) == FindIndex(m.tpls, id) # 0

\* the tracked record is kept while the record at its position is untouched
KeepTrack(tr, old, new) ==
  IF tr # <<>> /\ tr[1].idx <= Len(new) /\ tr[1].idx <= Len(old)
     /\ new[tr[1].idx] = old[tr[1].idx]
  THEN tr ELSE <<>>

Mgr == [tpls |-> templates, st |-> store]

Saved(wrote, ok) == IF ~wrote THEN "none" ELSE IF ok THEN "ok" ELSE "failed"

\* an array that a caller got from getAllTemplates holds, element by
\* element, a record object: the one at position pos of the manager's array
\* (own = <<>>), or an object that is not, or no longer, in the manager's
\* array (own = <<its value>>; pos is 0 once the manager has dropped the
\* object it was copied from)
Cell(pos, own) == [pos |-> pos, own |-> own]

\* a copy that clones the records as well
getAllTemplatesDeep(tpls) ==
  [i \in 1..Len(tpls) |-> Cell(i, <<tpls[i]>>)]

\* getAllTemplates: [...this.templates], a new array of the same objects
getAllTemplates(tpls) == [i \in 1..Len(tpls) |-> Cell(i, <<>>)]

\* the records a caller reads in the array it holds
View(cells, tpls) ==
  [i \in 1..Len(cells) |->
     IF cells[i].own = <<>> THEN tpls[cells[i].pos] ELSE cells[i].own[1]]

\* what becomes of a held element when the manager runs op on the
\* collection tpls: update, import-overwrite, clear and a reload put new
\* objects into the manager's array and delete splices one out, so the held
\* element keeps the old object; incrementUsage writes into the object
FollowCell(c, op, tpls) ==
  LET gone == Cell(0, IF c.own = <<>> THEN <<tpls[c.pos]>> ELSE c.own)
  IN IF c.pos = 0 THEN c
     ELSE CASE op.op \in {"clear", "construct"} -> gone
            [] op.op \in {"update", "delete"} /\ op.found = c.pos -> gone
            [] op.op = "delete" /\ op.found # 0 /\ op.found < c.pos ->
                 Cell(c.pos - 1, c.own)
            [] op.op = "import" /\ c.pos \in op.replaced -> gone
            [] OTHER -> c

\* the held array after op, with the records read in it before op
Follow(h, op, tpls) ==
  IF h = <<>> THEN <<>>
  ELSE <<[cells |-> [i \in 1..Len(h[1].cells) |->
                      FollowCell(h[1].cells[i], op, tpls)],
          before |-> View(h[1].cells, tpls)]>>

Count(op) ==
  /\ steps < MaxSteps
  /\ steps' = steps + 1
  /\ pre' = templates
  /\ preStore' = store
  /\ last' = op

Step(op) ==
  /\ Count(op)
  /\ held' = Follow(held, op, templates)
  /\ UNCHANGED <<coordinator, requests, other, i18n>>

Becomes(m) ==
  /\ templates' = m.tpls
  /\ store' = m.st

(* ------------------------------ actions -------------------------------- *)
Init ==
  /\ store = <<>>
  /\ templates = loadTemplates(store)
  /\ quotaExceeded \in BOOLEAN
  /\ now = 0
  /\ file = <<>>
  /\ held = <<>>
  /\ other = loadTemplates(store)
  /\ i18n = I18nInit(<<>>)
  /\ requests = <<>>
  /\ coordinator = initializeFromStorage(<<>>)
  /\ pre = <<>>
  /\ preStore = <<>>
  /\ last = [op |-> "construct"]
  /\ track = <<>>
  /\ steps = 0

\* the clock advances between two handlers
Tick ==
  /\ now' = now + 1
  /\ Step([op |-> "tick"])
  /\ UNCHANGED <<templates, store, quotaExceeded, file, track>>

\* the origin's storage fills up or is freed
StorageQuota ==
  /\ quotaExceeded' = ~quotaExceeded
  /\ Step([op |-> "quota"])
  /\ UNCHANGED <<templates, store, now, file, track>>

\* a page load constructs a new manager from the store
Reload ==
  /\ templates' = loadTemplates(store)
  /\ track' = <<>>
  /\ Step([op |-> "construct"])
  /\ UNCHANGED <<store, quotaExceeded, now, file>>

AddTemplate ==
  \E in \in AddInputs, r \in Suffixes :
    LET tpl == NewTemplate(in.name, in.description, in.data, in.endpoint,
                           in.method, now, r)
    IN /\ Becomes(addTemplate(Mgr, tpl, ~quotaExceeded))
       /\ track' = <<[idx |-> Len(templates) + 1, id |-> tpl.id, n |-> 0,
                      lastT |-> Null, created |-> tpl]>>
       /\ Step([op |-> "add", in |-> in,
                ret |-> addTemplateReturns(Mgr, tpl, ~quotaExceeded),
                saved |-> Saved(TRUE, ~quotaExceeded)])
       /\ UNCHANGED <<quotaExceeded, now, file>>

\* updateTemplate(id, u) called by a handler
Update(id, u) ==
  LET i == FindIndex(templates, id)
  IN /\ Becomes(updateTemplate(Mgr, id, u, now, ~quotaExceeded))
     /\ track' = KeepTrack(track, templates, templates')
     /\ Step([op |-> "update", id |-> id, updates |-> u, found |-> i,
              ret |-> updateTemplateReturns(Mgr, id, u, now, ~quotaExceeded),
              saved |-> Saved(i # 0, ~quotaExceeded)])
     /\ UNCHANGED <<quotaExceeded, now, file>>

UpdateTemplate ==
  \E id \in KnownIds(templates) \cup {UnknownId}, u \in UpdateInputs :
    Update(id, u)

\* updateTemplate called by a script with any partial fields
UpdateTemplateFields ==
  \E id \in KnownIds(templates), u \in PartialFields : Update(id, u)

DeleteTemplate ==
  \E id \in KnownIds(templates) \cup {UnknownId} :
    LET i == FindIndex(templates, id)
    IN /\ Becomes(deleteTemplate(Mgr, id, ~quotaExceeded))
       /\ track' = KeepTrack(track, templates, templates')
       /\ Step([op |-> "delete", id |-> id, found |-> i,
                ret |-> deleteTemplateReturns(Mgr, id, ~quotaExceeded),
                saved |-> Saved(i # 0, ~quotaExceeded)])
       /\ UNCHANGED <<quotaExceeded, now, file>>

IncrementUsage ==
  \E id \in KnownIds(templates) \cup {UnknownId} :
    LET i == getTemplate(templates, id)
    IN /\ Becomes(incrementUsage(Mgr, id, now, ~quotaExceeded))
       /\ track' = IF track # <<>> /\ track[1].id = id
                   THEN <<[track[1] EXCEPT !.n = @ + 1, !.lastT = now]>>
                   ELSE track
       /\ Step([op |-> "increment", id |-> id, found |-> i,
                saved |-> Saved(i # 0, ~quotaExceeded)])
       /\ UNCHANGED <<quotaExceeded, now, file>>

ClearAllTemplates ==
  /\ Becomes(clearAllTemplates(Mgr, ~quotaExceeded))
  /\ track' = <<>>
  /\ Step([op |-> "clear", saved |-> Saved(TRUE, ~quotaExceeded)])
  /\ UNCHANGED <<quotaExceeded, now, file>>

\* the export button: the document is downloaded as a file
ExportTemplates ==
  /\ file' = <<exportTemplates(templates, now)>>
  /\ Step([op |-> "export"])
  /\ UNCHANGED <<templates, store, quotaExceeded, now, track>>

\* reader.onload of the import dialog on a file with content p; the overwrite
\* answer is not read when the payload is rejected
Import(p) ==
  \E overwrite \in (IF ImportThrows(p) THEN {FALSE} ELSE BOOLEAN),
     rs \in [AddPositions(p) -> Suffixes] :
    \E res \in {importTemplates(Mgr, p, overwrite, now, rs, ~quotaExceeded)} :
      /\ Becomes(res.m)
      /\ track' = KeepTrack(track, templates, templates')
      /\ Step([op |-> "import", payload |-> p, overwrite |-> overwrite,
               thrown |-> res.thrown, imported |-> res.imported,
               skipped |-> res.skipped, errors |-> res.errors,
               replaced |-> res.replaced,
               saved |-> Saved(res.writes > 0, ~quotaExceeded)])
      /\ UNCHANGED <<quotaExceeded, now, file>>

\* the import dialog: a file of the user's, or the file exported before
ImportTemplates ==
  \E p \in ImportPayloads \cup {file[i] : i \in 1..Len(file)} : Import(p)

\* the import dialog on the file exported before
ImportExported == file # <<>> /\ Import(file[1])

\* the characters of the strings that names, descriptions, endpoints and
\* queries take
Chars(str) ==
  CASE str = "" -> <<>>
    [] str = "/gen" -> <<"/", "g", "e", "n">>
    [] str = "/validate" -> <<"/", "v", "a", "l", "i", "d", "a", "t", "e">>
    [] str = "GEN" -> <<"G", "E", "N">>
    [] OTHER -> <<str>>

\* toLowerCase of one character
LowerChar(c) ==
  CASE c = "A" -> "a"
    [] c = "B" -> "b"
    [] c = "E" -> "e"
    [] c = "G" -> "g"
    [] c = "N" -> "n"
    [] c = "X" -> "x"
    [] c = "Y" -> "y"
    [] OTHER -> c

\* str.toLowerCase(), as characters
toLowerCase(str) == [i \in 1..Len(Chars(str)) |-> LowerChar(Chars(str)[i])]

\* hay.includes(needle) on characters
includes(hay, needle) ==
  \E i \in 0..(Len(hay) - Len(needle)) :
    SubSeq(hay, i + 1, i + Len(needle)) = needle

\* v.toLowerCase().includes(searchTerm): "throws" when v has no toLowerCase
FieldIncludes(v, searchTerm) ==
  IF ~IsString(v) THEN "throws"
  ELSE IF includes(toLowerCase(v), searchTerm) THEN "yes" ELSE "no"

\* name || description || endpoint of the filter callback, left to right
FilterCallback(tpl, searchTerm) ==
  LET n == FieldIncludes(Get(tpl, "name"), searchTerm)
      d == FieldIncludes(Get(tpl, "description"), searchTerm)
      e == FieldIncludes(Get(tpl, "endpoint"), searchTerm)
  IN IF n # "no" THEN n ELSE IF d # "no" THEN d ELSE e

\* searchTemplates: the matching templates, or the TypeError of a callback
searchTemplates(tpls, query) ==
  LET searchTerm == toLowerCase(query)
      Test(tpl) == FilterCallback(tpl, searchTerm) = "yes"
  IN IF \E i \in 1..Len(tpls) : FilterCallback(tpls[i], searchTerm) = "throws"
     THEN [thrown |-> TRUE, ret |-> <<>>]
     ELSE [thrown |-> FALSE, ret |-> SelectSeq(tpls, Test)]

\* query strings passed to searchTemplates
Queries == {"", "a", "GEN", "Y", "N"}

SearchTemplates ==
  \E q \in Queries :
    LET res == searchTemplates(templates, q)
    IN /\ Step([op |-> "search", query |-> q, thrown |-> res.thrown,
                result |-> res.ret])
       /\ UNCHANGED <<templates, store, quotaExceeded, now, file, track>>

\* a caller takes the list, as the templates view does to display it
GetAllTemplates ==
  /\ held' = <<[cells |-> getAllTemplates(templates), before |-> templates]>>
  /\ Count([op |-> "list"])
  /\ UNCHANGED <<templates, store, quotaExceeded, now, file, track,
                 coordinator, requests, other, i18n>>

\* the caller removes the last element of the array it holds, or pushes a
\* record of its own
CallerMutates ==
  /\ held # <<>>
  /\ \E cells \in
        { SubSeq(held[1].cells, 1, Len(held[1].cells) - 1),
          Append(held[1].cells, Cell(0, <<TemplateA("r2")>>)) } :
       held' = <<[cells |-> cells, before |-> View(held[1].cells, templates)]>>
  /\ Count([op |-> "caller"])
  /\ UNCHANGED <<templates, store, quotaExceeded, now, file, track,
                 coordinator, requests, other, i18n>>

\* the usage count of the record at position i, 0 when there is none
UsageAt(tpls, i) == IF i \in 1..Len(tpls) THEN tpls[i].usageCount ELSE 0

\* loadTemplate(templateId) of the UI on a page that has, or has not, a form for
\* the template's endpoint: the count moves only once the form is filled
loadTemplate(m, id, formExists, t, ok) ==
  IF getTemplate(m.tpls, id) = 0 \/ ~formExists THEN m
  ELSE incrementUsage(m, id, t, ok)

\* loadTemplateAndNavigate(templateId): count, then load on this page when it
\* is the target page, else navigate
loadTemplateAndNavigate(m, id, onTarget, formExists, t, ok) ==
  IF getTemplate(m.tpls, id) = 0 THEN m
  ELSE IF onTarget
       THEN loadTemplate(incrementUsage(m, id, t, ok), id, formExists, t, ok)
       ELSE incrementUsage(m, id, t, ok)

LoadOutcome(i, direct, formExists) ==
  IF i = 0 THEN "notfound"
  ELSE IF ~direct THEN "navigated"
  ELSE IF formExists THEN "loaded" ELSE "noform"

\* a click on a quick-template button
LoadTemplate ==
  \E id \in KnownIds(templates) \cup {UnknownId}, formExists \in BOOLEAN :
    /\ Becomes(loadTemplate(Mgr, id, formExists, now, ~quotaExceeded))
    /\ track' = <<>>
    /\ Step([op |-> "loadTemplate", id |-> id,
             found |-> getTemplate(templates, id),
             outcome |-> LoadOutcome(getTemplate(templates, id), TRUE,
                                     formExists)])
    /\ UNCHANGED <<quotaExceeded, now, file>>

\* a click on Load Template in the templates list or the details dialog
LoadTemplateAndNavigate ==
  \E id \in KnownIds(templates) \cup {UnknownId}, onTarget \in BOOLEAN,
     formExists \in BOOLEAN :
    /\ Becomes(loadTemplateAndNavigate(Mgr, id, onTarget, formExists, now,
                                       ~quotaExceeded))
    /\ track' = <<>>
    /\ Step([op |-> "loadTemplateAndNavigate", id |-> id,
             found |-> getTemplate(templates, id),
             outcome |-> LoadOutcome(getTemplate(templates, id), onTarget,
                                     formExists)])
    /\ UNCHANGED <<quotaExceeded, now, file>>

Next ==
  \/ Tick
  \/ StorageQuota
  \/ Reload
  \/ AddTemplate
  \/ UpdateTemplate
  \/ DeleteTemplate
  \/ IncrementUsage
  \/ ClearAllTemplates
  \/ ExportTemplates
  \/ ImportTemplates

Spec == Init /\ [][Next]_vars

\* the load buttons of the UI on templates saved before
NextUI ==
  \/ Tick
  \/ StorageQuota
  \/ AddTemplate
  \/ LoadTemplate
  \/ LoadTemplateAndNavigate

SpecUI == Init /\ [][NextUI]_vars

\* a record stored by a version of the program without the usage fields
StoredOld(tpl) ==
  [k \in DOMAIN tpl \ {"usageCount", "lastUsed"} |-> tpl[k]]

\* what the key can hold when a page loads: nothing, texts that are not the
\* JSON of a list, lists of records with and without the usage fields, a
\* list with a null element
StoredItems ==
  { <<>>,
    <<NotAList("empty")>>,
    <<NotAList("unparseable")>>,
    <<NotAList("null")>>,
    <<NotAList("object")>>,
    << <<>> >>,
    <<Stringify(<<TemplateA("r1")>>)>>,
    << <<StoredOld(TemplateA("r1"))>> >>,
    << <<[TemplateB("r1") EXCEPT !.usageCount = 2, !.lastUsed = 0],
         StoredOld(TemplateA("r2"))>> >>,
    << <<NullEntry, StoredOld(TemplateA("r1"))>> >> }

\* a page load on whatever the key holds
InitStored ==
  /\ store \in StoredItems
  /\ templates = loadTemplates(store)
  /\ quotaExceeded \in BOOLEAN
  /\ now = 1
  /\ file = <<>>
  /\ held = <<>>
  /\ other = loadTemplates(store)
  /\ i18n = I18nInit(<<>>)
  /\ requests = <<>>
  /\ coordinator = initializeFromStorage(<<>>)
  /\ pre = <<>>
  /\ preStore = <<>>
  /\ last = [op |-> "construct"]
  /\ track = <<>>
  /\ steps = 0

\* another script of the origin, or the user, rewrites the key
ForeignWrite ==
  /\ store' \in StoredItems
  /\ Step([op |-> "foreign"])
  /\ UNCHANGED <<templates, quotaExceeded, now, file, track>>

NextStored ==
  \/ Reload
  \/ ForeignWrite
  \/ AddTemplate
  \/ IncrementUsage

SpecStored == InitStored /\ [][NextStored]_vars

\* searches on collections built by the save dialog and the import dialog
NextSearch ==
  \/ AddTemplate
  \/ ImportTemplates
  \/ SearchTemplates

SpecSearch == Init /\ [][NextSearch]_vars

\* what a script or a dropdown item can ask for
LanguageCodes == SupportedLanguages \cup InheritedKeys \cup {"de", Undefined}

\* the other fields of a language step
LanguageStep(op) ==
  /\ Count(op)
  /\ UNCHANGED <<templates, store, quotaExceeded, file, held, track,
                 requests, other, i18n>>

\* window.changeLanguage(code), UnifiedLanguageSystem.changeLanguage(code)
ChangeLanguage ==
  \E code \in LanguageCodes, hasI18n \in BOOLEAN :
    /\ coordinator' =
         changeLanguage(coordinator, code, now, ~quotaExceeded, hasI18n)
    /\ now' = now
    /\ LanguageStep([op |-> "changeLanguage", code |-> code,
                     before |-> coordinator])

\* a click on an item of the language dropdown
HandleLanguageClick ==
  \E code \in LanguageCodes, hasI18n \in BOOLEAN :
    /\ coordinator' =
         handleLanguageClick(coordinator, code, now, ~quotaExceeded, hasI18n)
    /\ now' = now
    /\ LanguageStep([op |-> "click", code |-> code, before |-> coordinator])

\* the awaited promise settles, fulfilled or rejected, and the change goes
\* on to its end; the continuation of a change that was counted when it was
\* requested is not counted again
I18nSettles ==
  \E i \in 1..Len(coordinator.inFlight), outcome \in {"fulfilled", "rejected"} :
    /\ coordinator' = Settle(coordinator, i)
    /\ last' = [op |-> "settle", outcome |-> outcome, before |-> coordinator]
    /\ pre' = templates
    /\ preStore' = store
    /\ UNCHANGED <<templates, store, quotaExceeded, now, file, held, track,
                   requests, other, i18n, steps>>

\* time passes between two events
Elapse ==
  \E d \in {1, DebounceWindow - 1, DebounceWindow} :
    /\ now' = now + d
    /\ coordinator' = coordinator
    /\ LanguageStep([op |-> "elapse", before |-> coordinator])

\* a page whose clock, like Date.now(), is past the window
InitLanguage ==
  /\ store = <<>>
  /\ templates = loadTemplates(store)
  /\ quotaExceeded \in BOOLEAN
  /\ now = DebounceWindow
  /\ file = <<>>
  /\ held = <<>>
  /\ other = loadTemplates(store)
  /\ i18n = I18nInit(<<>>)
  /\ requests = <<>>
  /\ coordinator \in {initializeFromStorage(<<>>),
                       initializeFromStorage(<<"en">>)}
  /\ pre = <<>>
  /\ preStore = <<>>
  /\ last = [op |-> "construct"]
  /\ track = <<>>
  /\ steps = 0

NextLanguage ==
  \/ ChangeLanguage
  \/ HandleLanguageClick
  \/ I18nSettles
  \/ Elapse

SpecLanguage == InitLanguage /\ [][NextLanguage]_vars

\* the promise of window.i18n.changeLanguage settles: the translation file
\* is loaded, or the load fails
SpecLanguageFair == SpecLanguage /\ WF_vars(I18nSettles)

\* the manager's methods called with any arguments of their types
NextApi ==
  \/ Tick
  \/ AddTemplate
  \/ UpdateTemplateFields
  \/ IncrementUsage
  \/ ImportTemplates

SpecApi == Init /\ [][NextApi]_vars

\* collections a manager holds after a few operations: empty, one template
\* (fresh, used, or overwritten by an import entry without description and
\* method), two templates, two templates with the same (name, endpoint)
HeldCollections ==
  { <<>>,
    <<TemplateA("r1")>>,
    <<[TemplateB("r1") EXCEPT !.usageCount = 2, !.lastUsed = 0]>>,
    <<Merge(TemplateA("r2"),
            [description |-> Undefined, data |-> "d3", method |-> Undefined],
            0)>>,
    <<TemplateA("r1"), TemplateB("r2")>>,
    <<TemplateB("r1"), TemplateA("r1"), TemplateB("r2")>> }

\* a session that starts on a collection held and saved before
InitHeld ==
  /\ templates \in HeldCollections
  /\ store = <<Stringify(templates)>>
  /\ quotaExceeded \in BOOLEAN
  /\ now \in {0, 1}
  /\ file = <<>>
  /\ held = <<>>
  /\ other = loadTemplates(store)
  /\ i18n = I18nInit(<<>>)
  /\ requests = <<>>
  /\ coordinator = initializeFromStorage(<<>>)
  /\ pre = <<>>
  /\ preStore = <<>>
  /\ last = [op |-> "construct"]
  /\ track = <<>>
  /\ steps = 0

\* export, empty the store, import the exported file
NextRoundTrip ==
  \/ ExportTemplates
  \/ ClearAllTemplates
  \/ ImportExported

SpecRoundTrip == InitHeld /\ [][NextRoundTrip]_vars

\* a caller holds the list while the manager is mutated
NextSnapshot ==
  \/ GetAllTemplates
  \/ CallerMutates
  \/ AddTemplate
  \/ UpdateTemplate
  \/ DeleteTemplate
  \/ IncrementUsage
  \/ ClearAllTemplates

SpecSnapshot == InitHeld /\ [][NextSnapshot]_vars

(* ----------------------------- API requests --------------------------- *)
\* API_CONFIG.timeout, in milliseconds
Timeout == 30000

Endpoints == {"/gen", "/validate"}

\* fetchWithTimeout up to its await: the request is sent and the timer that
\* calls controller.abort() is set
fetchWithTimeout(endpoint, t) ==
  [endpoint |-> endpoint, started |-> t, timer |-> TRUE,
   phase |-> "fetch", ended |-> Null, outcome |-> "pending"]

\* the promise of fetch is fulfilled when the response's headers are in:
\* the finally block clears the timer and handleResponse waits for the body
\* (response.blob() or response.json())
handleResponse(r) == [r EXCEPT !.timer = FALSE, !.phase = "body"]

\* the request ends at time t: the body is read (what = "response"), or
\* handleError turns the rejection into a code
Settled(r, t, what) ==
  [r EXCEPT !.timer = FALSE, !.phase = "done", !.ended = t, !.outcome = what]

\* handleError on the named error
handleError(name) ==
  CASE name = "AbortError" -> "TIMEOUT"
    [] name = "Failed to fetch" -> "NETWORK_ERROR"
    [] OTHER -> "UNKNOWN_ERROR"

\* the time at which the timer of r runs
Deadline(r) == r.started + Timeout

RequestStep(op) ==
  /\ Count(op)
  /\ UNCHANGED <<templates, store, quotaExceeded, file, held, track,
                 coordinator, other, i18n>>

\* apiClient.makeRequest(endpoint, ...)
MakeRequest ==
  \E endpoint \in Endpoints :
    /\ requests' = Append(requests, fetchWithTimeout(endpoint, now))
    /\ now' = now
    /\ RequestStep([op |-> "makeRequest", endpoint |-> endpoint])

\* the headers of the response to request i arrive
HeadersArrive ==
  \E i \in 1..Len(requests) :
    /\ requests[i].phase = "fetch"
    /\ requests' = [requests EXCEPT ![i] = handleResponse(@)]
    /\ now' = now
    /\ RequestStep([op |-> "headers", i |-> i])

\* the body of the response to request i is read to its end, or reading or
\* parsing it fails
BodyArrives ==
  \E i \in 1..Len(requests), what \in {"response", handleError("SyntaxError")} :
    /\ requests[i].phase = "body"
    /\ requests' = [requests EXCEPT ![i] = Settled(@, now, what)]
    /\ now' = now
    /\ RequestStep([op |-> "body", i |-> i])

\* fetch rejects: the server cannot be reached
FetchFails ==
  \E i \in 1..Len(requests) :
    /\ requests[i].phase = "fetch"
    /\ requests' =
         [requests EXCEPT ![i] = Settled(@, now, handleError("Failed to fetch"))]
    /\ now' = now
    /\ RequestStep([op |-> "fetchFails", i |-> i])

\* the timer of request i runs: controller.abort() rejects the pending
\* fetch, or the pending read of the body, with an AbortError
TimerFires ==
  \E i \in 1..Len(requests) :
    /\ requests[i].timer
    /\ now = Deadline(requests[i])
    /\ requests' =
         [requests EXCEPT ![i] = Settled(@, now, handleError("AbortError"))]
    /\ now' = now
    /\ RequestStep([op |-> "timer", i |-> i])

\* time passes, up to the next timer that is set
Wait ==
  \E d \in {1, Timeout, Timeout + 1} :
    /\ \A i \in 1..Len(requests) :
         requests[i].timer => now + d <= Deadline(requests[i])
    /\ now' = now + d
    /\ requests' = requests
    /\ RequestStep([op |-> "wait"])

NextRequest ==
  \/ MakeRequest
  \/ HeadersArrive
  \/ BodyArrives
  \/ FetchFails
  \/ TimerFires
  \/ Wait

SpecRequest == Init /\ [][NextRequest]_vars

(* --------------------------- payload text ------------------------------ *)
\* a string is the sequence of its characters; LF and CR are the line feed
\* and the carriage return
LF == "LF"
CR == "CR"

\* the characters String.prototype.trim removes at both ends
IsWhiteSpace(ch) == ch \in {" ", LF, CR}

RECURSIVE trim(_)
trim(str) ==
  IF str = <<>> THEN <<>>
  ELSE IF IsWhiteSpace(str[1]) THEN trim(Tail(str))
  ELSE IF IsWhiteSpace(str[Len(str)]) THEN trim(SubSeq(str, 1, Len(str) - 1))
  ELSE str

\* value.replace(/\n/g, '\r\n')
RECURSIVE ReplaceLineFeeds(_)
ReplaceLineFeeds(str) ==
  IF str = <<>> THEN <<>>
  ELSE (IF str[1] = LF THEN <<CR, LF>> ELSE <<str[1]>>)
         \o ReplaceLineFeeds(Tail(str))

\* parts.join('|')
RECURSIVE Join(_)
Join(parts) ==
  IF parts = <<>> THEN <<>>
  ELSE IF Len(parts) = 1 THEN parts[1]
  ELSE parts[1] \o <<"|">> \o Join(Tail(parts))

PayloadFields == <<"K", "V", "C", "R", "N", "I", "P", "SF", "S", "RO">>

\* formData[field] && formData[field].trim()
FieldIsSet(formData, field) ==
  /\ field \in DOMAIN formData
  /\ formData[field] # <<>>
  /\ trim(formData[field]) # <<>>

\* the parts that fields.forEach pushes from field i on
RECURSIVE Parts(_, _)
Parts(formData, i) ==
  IF i > Len(PayloadFields) THEN <<>>
  ELSE LET field == PayloadFields[i]
       IN (IF FieldIsSet(formData, field)
           THEN << <<field, ":">> \o ReplaceLineFeeds(formData[field]) >>
           ELSE <<>>)
          \o Parts(formData, i + 1)

prepareTextRequestData(formData) ==
  IF "qrText" \in DOMAIN formData /\ formData.qrText # <<>>
  THEN formData.qrText
  ELSE Join(Parts(formData, 1))

\* what a form field can hold: nothing, blanks, one line, and two lines
\* separated by each kind of line break
FieldValues ==
  { <<>>, <<" ">>, <<"a">>, <<"a", LF, "b">>, <<"a", CR, LF, "b">>,
    <<"a", CR, "b">>, <<"a", LF>>, <<LF, "a">> }

\* the form data of the generate form: the payment type, and a name, a
\* description and a reference that are filled in or left out; and the data
\* of the validate form
FormInputs ==
  { [k \in D |-> CASE k = "K" -> <<"P", "R">>
                  [] k = "N" -> n
                  [] k = "S" -> d
                  [] OTHER -> <<"9", "7">>] :
      D \in { {"K"} \cup O : O \in SUBSET {"N", "S", "RO"} },
      n \in FieldValues, d \in FieldValues }
  \cup { [qrText |-> t] : t \in {<<>>, <<"K", ":", "P", "R">>} }

PrepareTextRequestData ==
  \E formData \in FormInputs :
    /\ Step([op |-> "prepareText", formData |-> formData,
             ret |-> prepareTextRequestData(formData)])
    /\ UNCHANGED <<templates, store, quotaExceeded, now, file, track>>

NextPayload == PrepareTextRequestData

SpecPayload == Init /\ [][NextPayload]_vars

(* ------------------------------ two tabs ------------------------------- *)
\* the manager of a second tab of the same origin: its own collection over
\* the same stored item
OtherMgr == [tpls |-> other, st |-> store]

\* a step of the second tab
OtherStep(op) ==
  /\ Count(op)
  /\ UNCHANGED <<templates, quotaExceeded, now, file, held, track,
                 coordinator, requests, i18n>>

\* the second tab is opened or reloaded
OtherReload ==
  /\ other' = loadTemplates(store)
  /\ store' = store
  /\ OtherStep([op |-> "construct", tab |-> "other"])

OtherAddTemplate ==
  \E in \in AddInputs, r \in Suffixes :
    LET tpl == NewTemplate(in.name, in.description, in.data, in.endpoint,
                           in.method, now, r)
        m == addTemplate(OtherMgr, tpl, ~quotaExceeded)
    IN /\ other' = m.tpls
       /\ store' = m.st
       /\ OtherStep([op |-> "add", tab |-> "other", in |-> in,
                     saved |-> Saved(TRUE, ~quotaExceeded)])

OtherDeleteTemplate ==
  \E id \in KnownIds(other) \cup {UnknownId} :
    LET m == deleteTemplate(OtherMgr, id, ~quotaExceeded)
    IN /\ other' = m.tpls
       /\ store' = m.st
       /\ OtherStep([op |-> "delete", tab |-> "other", id |-> id,
                     found |-> FindIndex(other, id),
                     saved |-> Saved(FindIndex(other, id) # 0,
                                     ~quotaExceeded)])

NextTabs ==
  \/ Reload
  \/ AddTemplate
  \/ DeleteTemplate
  \/ OtherReload
  \/ OtherAddTemplate
  \/ OtherDeleteTemplate

SpecTabs == Init /\ [][NextTabs]_vars

(* ------------------------- template UI actions ------------------------- *)
\* templateManager.templates.find((t) => t.name === name): the position of
\* the first template with the name, 0 when there is none
FindByName(tpls, name) ==
  IF \E i \in 1..Len(tpls) : tpls[i].name = name
  THEN CHOOSE i \in 1..Len(tpls) :
         /\ tpls[i].name = name
         /\ \A j \in 1..(i - 1) : tpls[j].name # name
  ELSE 0

\* saveTemplate() of the UI with the trimmed name and description of the
\* modal; confirmed is the answer to the replace prompt
uiSaveTemplate(m, name, description, confirmed, t, r, ok) ==
  LET ex == FindByName(m.tpls, name)
      tpl == NewTemplate(name, description, "d1", "/gen", "POST", t, r)
  IN IF name = "" THEN m
     ELSE IF ex # 0 /\ ~confirmed THEN m
     ELSE IF ex # 0
          THEN addTemplate(deleteTemplate(m, m.tpls[ex].id, ok), tpl, ok)
          ELSE addTemplate(m, tpl, ok)

\* the submit handler of editTemplateForm with the trimmed fields
uiEditTemplate(m, id, name, description, t, ok) ==
  IF name = "" THEN m
  ELSE updateTemplate(m, id, [name |-> name, description |-> description],
                      t, ok)

\* duplicateTemplate(templateId); newName is the trimmed answer to the
\* prompt, "" when it was cancelled or left blank
uiDuplicateTemplate(m, id, newName, t, r, ok) ==
  LET i == getTemplate(m.tpls, id)
  IN IF i = 0 \/ newName = "" THEN m
     ELSE addTemplate(m, NewTemplate(newName, m.tpls[i].description,
                                     m.tpls[i].data, m.tpls[i].endpoint,
                                     m.tpls[i].method, t, r), ok)

\* deleteTemplate(templateId) of the UI; confirmed is the answer to the prompt
uiDeleteTemplate(m, id, confirmed, ok) ==
  IF getTemplate(m.tpls, id) = 0 \/ ~confirmed THEN m
  ELSE deleteTemplate(m, id, ok)

\* the names a user types: blank, two names, and the name the duplicate
\* prompt proposes for the first
TypedNames == {"", "A", "B", "A (Copy)"}

UiStep(op) ==
  /\ track' = <<>>
  /\ Step(op)
  /\ UNCHANGED <<quotaExceeded, now, file>>

SaveTemplate ==
  \E name \in TypedNames, confirmed \in BOOLEAN, r \in Suffixes :
    /\ Becomes(uiSaveTemplate(Mgr, name, "", confirmed, now, r,
                              ~quotaExceeded))
    /\ UiStep([op |-> "uiSave", name |-> name, confirmed |-> confirmed,
               found |-> FindByName(templates, name)])

EditTemplate ==
  \E id \in KnownIds(templates), name \in TypedNames :
    /\ Becomes(uiEditTemplate(Mgr, id, name, "", now, ~quotaExceeded))
    /\ UiStep([op |-> "uiEdit", id |-> id, name |-> name,
               found |-> FindIndex(templates, id)])

DuplicateTemplate ==
  \E id \in KnownIds(templates), newName \in TypedNames, r \in Suffixes :
    /\ Becomes(uiDuplicateTemplate(Mgr, id, newName, now, r, ~quotaExceeded))
    /\ UiStep([op |-> "uiDuplicate", id |-> id, name |-> newName,
               found |-> 0])

UiDeleteTemplate ==
  \E id \in KnownIds(templates), confirmed \in BOOLEAN :
    /\ Becomes(uiDeleteTemplate(Mgr, id, confirmed, ~quotaExceeded))
    /\ UiStep([op |-> "uiDelete", id |-> id, confirmed |-> confirmed,
               found |-> IF confirmed THEN FindIndex(templates, id) ELSE 0])

NextNames ==
  \/ Tick
  \/ SaveTemplate
  \/ EditTemplate
  \/ DuplicateTemplate
  \/ UiDeleteTemplate

SpecNames == Init /\ [][NextNames]_vars

(* ------------------------- I18n language changes ----------------------- *)
I18nStep(op) ==
  /\ Count(op)
  /\ UNCHANGED <<templates, store, quotaExceeded, now, file, held, track,
                 coordinator, requests, other>>

\* window.i18n.changeLanguage(lang)
I18nChangeLanguage ==
  \E lang \in SupportedLanguages \cup {"de"} :
    /\ i18n' = i18nChangeLanguage(i18n, lang, ~quotaExceeded)
    /\ I18nStep([op |-> "i18nChange", lang |-> lang, before |-> i18n])

\* the fetch of a translation file ends
I18nLoadEnds ==
  \E i \in 1..Len(i18n.pending), loaded \in BOOLEAN :
    /\ i18n' = i18nLoadEnds(i18n, i, loaded, ~quotaExceeded)
    /\ I18nStep([op |-> "i18nLoad", lang |-> i18n.pending[i],
                 before |-> i18n])

NextI18n ==
  \/ I18nChangeLanguage
  \/ I18nLoadEnds
  \/ StorageQuota

SpecI18n == Init /\ [][NextI18n]_vars

(* ------------------------ language of API requests --------------------- *)
\* the binding currentLanguage of the API script, declared by
\* let currentLanguage = 'sr_RS_Latn' at its top level: no statement of the
\* program assigns it, and a top-level let binding is not the property of
\* the global object that the coordinator writes
ApiCurrentLanguage == "sr_RS_Latn"

\* the functions that pass lang: currentLanguage to makeAPICall, and
\* makeAPICall called without options.lang
ApiFunctions ==
  {"makeAPICall", "generateQRImage", "generateQRWithResponse",
   "validateQRText", "uploadQRImage"}

\* options.lang of the request that makeAPICall passes to makeRequest
makeAPICall(lang) ==
  IF lang = Undefined THEN ApiCurrentLanguage ELSE lang

\* the lang that the function fn passes in its options
OptionsLang(fn) == IF fn = "makeAPICall" THEN Undefined ELSE ApiCurrentLanguage

\* a request is made through one of the API functions
MakeAPICall ==
  \E fn \in ApiFunctions :
    /\ coordinator' = coordinator
    /\ now' = now
    /\ LanguageStep([op |-> "apiCall", fn |-> fn,
                     lang |-> makeAPICall(OptionsLang(fn)),
                     before |-> coordinator])

NextApiLanguage ==
  \/ ChangeLanguage
  \/ HandleLanguageClick
  \/ I18nSettles
  \/ Elapse
  \/ MakeAPICall

SpecApiLanguage == InitLanguage /\ [][NextApiLanguage]_vars

(* ----------------------- descriptions and search ----------------------- *)
\* import files whose entries all have a name, an endpoint and data, with
\* and without a description
WellFormedPayloads ==
  { ListPayload(<<EntryDup>>),
    ListPayload(<<EntrySameName>>),
    ListPayload(<<EntrySameName, EntryDup>>) }

\* the import dialog on a well-formed file
ImportWellFormed == \E p \in WellFormedPayloads : Import(p)

NextDescriptions ==
  \/ AddTemplate
  \/ UpdateTemplate
  \/ IncrementUsage
  \/ DeleteTemplate
  \/ ImportWellFormed
  \/ SearchTemplates

SpecDescriptions == Init /\ [][NextDescriptions]_vars

(* ------------------------ vocabulary of the claims --------------------- *)
\* two records read the same under key k
SameField(x, y, k) ==
  /\ IsUndefined(x, k) = IsUndefined(y, k)
  /\ ~IsUndefined(x, k) => x[k] = y[k]

\* same number of records and, position by position, the same field values
SameCollection(a, b) ==
  /\ Len(a) = Len(b)
  /\ \A i \in 1..Len(a) : \A k \in Keys : SameField(a[i], b[i], k)

LastSaved == IF Has(last, "saved") THEN last.saved ELSE "none"

\* the minimal shape {name: string, endpoint: string, data: defined}
MinimalShape(e) ==
  /\ Has(e, "name") /\ e.name \notin {Undefined, NotAString, JsonNull}
  /\ Has(e, "endpoint") /\ e.endpoint \notin {Undefined, NotAString, JsonNull}
  /\ Has(e, "data") /\ e.data # Undefined

KeyOf(o) == <<Get(o, "name"), Get(o, "endpoint")>>

KeysOf(tpls) == {KeyOf(tpls[i]) : i \in 1..Len(tpls)}

\* the payload of the last import was a list that was processed
Processed == last.op = "import" /\ ~last.thrown

\* the positions of a list of entries that have the minimal shape
ShapedPositions(items) == {i \in 1..Len(items) : MinimalShape(items[i])}

\* the shaped positions whose key is neither in the collection before the
\* import nor the key of an earlier shaped entry of the list
NewPositions(items, before) ==
  {i \in ShapedPositions(items) :
     /\ KeyOf(items[i]) \notin KeysOf(before)
     /\ \A j \in ShapedPositions(items) :
          j < i => KeyOf(items[j]) # KeyOf(items[i])}

(* ------------------------------- C1 ------------------------------------ *)
\* C1: after a mutating operation (addTemplate, updateTemplate,
\* deleteTemplate, incrementUsage, importTemplates, clearAllTemplates) whose
\* storage write succeeded, an item is stored under the key and a manager
\* constructed from it holds the in-memory collection: the same number of
\* templates, in the same order, with the same field values.
C1_PersistedEqualsMemory ==
  LastSaved = "ok" =>
    /\ store # <<>>
    /\ SameCollection(loadTemplates(store), templates)

\* an overwriting import was saved and left a record whose description is
\* undefined in memory, which the stored document cannot hold
C1_Witness ==
  /\ last.op = "import"
  /\ last.saved = "ok"
  /\ \E i \in 1..Len(templates) :
       Has(templates[i], "description")
       /\ templates[i].description = Undefined
       /\ templates[i].usageCount > 0

(* ------------------------------- C4 ------------------------------------ *)
\* C4: importTemplates throws exactly when the payload is not parseable JSON
\* or its top-level templates field is not a list, and then the collection
\* and the store are unchanged; otherwise it returns a result that accounts
\* for every entry of the list, whatever the entries are.
C4_AbortOnlyInValidation ==
  last.op = "import" =>
    LET p == last.payload
        bad == p.kind # "object" \/ p.templatesType # "list"
    IN /\ last.thrown = bad
       /\ bad => templates = pre /\ store = preStore
       /\ ~bad => last.imported + last.skipped = Len(p.templates)

\* a list with a malformed entry was processed to the end, entries after the
\* malformed one included
C4_Witness ==
  /\ Processed
  /\ last.payload = ListPayload(<<EntryNumberName, EntryDup>>)
  /\ last.errors = <<1>>
  /\ last.imported = 1

(* ------------------------------- C5 ------------------------------------ *)
\* C5: for a payload whose templates field is a list of n entries,
\* imported + skipped = n; the entries that fail the minimal shape are
\* exactly the ones with an error message, each adds one to skipped and
\* nothing to the collection; each well-formed entry with a new
\* (name, endpoint) adds one template and one to imported; the remaining
\* well-formed entries (duplicates) are imported when overwriting and skipped
\* otherwise, and add nothing.
C5_ImportCounts ==
  Processed =>
    LET items == last.payload.templates
        n == Len(items)
        shaped == ShapedPositions(items)
        fresh == NewPositions(items, pre)
        dups == Cardinality(shaped) - Cardinality(fresh)
    IN /\ last.imported + last.skipped = n
       /\ Len(last.errors) = n - Cardinality(shaped)
       /\ \A i \in 1..n :
            (i \notin shaped) <=> (\E j \in 1..Len(last.errors) :
                                     last.errors[j] = i)
       /\ Len(templates) = Len(pre) + Cardinality(fresh)
       /\ last.imported =
            Cardinality(fresh) + (IF last.overwrite THEN dups ELSE 0)
       /\ last.skipped =
            (n - Cardinality(shaped)) + (IF last.overwrite THEN 0 ELSE dups)

\* one valid and one malformed entry: imported 1, skipped 1, one message
C5_Witness ==
  /\ Processed
  /\ last.payload = ListPayload(<<EntrySameName, EntryNoName>>)
  /\ last.imported = 1
  /\ last.skipped = 1
  /\ Len(last.errors) = 1
  /\ Len(templates) = Len(pre) + 1

(* ------------------------------- C7 ------------------------------------ *)
\* C7: updateTemplate(id, {name: X}) on an existing id changes only name and
\* updatedAt of the template it finds; the other fields of that template,
\* its position and every other template are unchanged.
C7_UpdateNameFrame ==
  (last.op = "update" /\ last.found # 0 /\ last.updates = [name |-> "X"]) =>
    /\ Len(templates) = Len(pre)
    /\ \A j \in 1..Len(pre) : j # last.found => templates[j] = pre[j]
    /\ DOMAIN templates[last.found] = DOMAIN pre[last.found]
    /\ \A k \in DOMAIN pre[last.found] \ {"name", "updatedAt"} :
         templates[last.found][k] = pre[last.found][k]
    /\ templates[last.found].name = "X"
    /\ templates[last.found].updatedAt = now

\* a used template that is not the last one was renamed at a later time
C7_Witness ==
  /\ last.op = "update"
  /\ last.updates = [name |-> "X"]
  /\ last.found # 0
  /\ Len(templates) >= 2
  /\ last.found < Len(templates)
  /\ pre[last.found].name # "X"

(* ------------------------------- C3 ------------------------------------ *)
\* the first template of a collection with the given (name, endpoint)
FirstWithKey(tpls, key) ==
  CHOOSE i \in 1..Len(tpls) :
    KeyOf(tpls[i]) = key /\ \A j \in 1..(i - 1) : KeyOf(tpls[j]) # key

\* C3: a well-formed entry whose (name, endpoint) is that of a template of
\* the collection: with overwrite the existing template keeps id, name,
\* endpoint, createdAt, usageCount and lastUsed and takes description, data
\* and method from the entry, the size is unchanged and the entry is counted
\* as imported; without overwrite the collection is unchanged and the entry
\* is counted as skipped.  An entry that only carries the id of an existing
\* template is not a duplicate: it is added.
C3_DuplicateByNameEndpoint ==
  /\ (Processed
      /\ last.payload = ListPayload(<<EntryNumberName, EntryDup>>)
      /\ KeyOf(EntryDup) \in KeysOf(pre)) =>
       LET ex == FirstWithKey(pre, KeyOf(EntryDup))
       IN IF last.overwrite
          THEN /\ Len(templates) = Len(pre)
               /\ \A k \in {"id", "name", "endpoint", "createdAt",
                            "usageCount", "lastUsed"} :
                    templates[ex][k] = pre[ex][k]
               /\ \A k \in {"description", "data", "method"} :
                    Get(templates[ex], k) = Get(EntryDup, k)
               /\ last.imported = 1
               /\ last.skipped = 1
          ELSE /\ templates = pre
               /\ last.imported = 0
               /\ last.skipped = 2
  /\ (Processed
      /\ last.payload = ListPayload(<<EntrySameName, EntryNoName>>)
      /\ KeyOf(EntrySameName) \notin KeysOf(pre)) =>
       /\ Len(templates) = Len(pre) + 1
       /\ \A j \in 1..Len(pre) : templates[j] = pre[j]

(* ------------------------------- C6 ------------------------------------ *)
\* C6: addTemplate followed by getTemplate of the returned id returns a
\* record with the name, description, data and endpoint given,
\* usageCount = 0 and lastUsed = null; the new record is appended after the
\* existing templates, which are unchanged.
C6_AddThenGet ==
  last.op = "add" =>
    LET i == getTemplate(templates, last.ret.id)
    IN /\ i # 0
       /\ \A k \in {"name", "description", "data", "endpoint"} :
            templates[i][k] = last.in[k]
       /\ templates[i].usageCount = 0
       /\ templates[i].lastUsed = Null
       /\ Len(templates) = Len(pre) + 1
       /\ templates[Len(templates)] = last.ret
       /\ \A j \in 1..Len(pre) : templates[j] = pre[j]

(* ------------------------------- C8 ------------------------------------ *)
\* C8: deleteTemplate(id) on an id of the collection returns true, a
\* following getTemplate(id) returns undefined, the collection shrinks by
\* one and the remaining templates keep their values and order.
C8_DeleteThenGet ==
  (last.op = "delete" /\ last.id \in KnownIds(pre)) =>
    /\ last.ret
    /\ getTemplate(templates, last.id) = 0
    /\ Len(templates) = Len(pre) - 1
    /\ \A j \in 1..Len(templates) :
         templates[j] = IF j < last.found THEN pre[j] ELSE pre[j + 1]

(* ------------------------------- C9 ------------------------------------ *)
\* C9: for the template addTemplate created last, after N calls of
\* incrementUsage with its id (and operations on other templates in
\* between) usageCount = N, lastUsed is the time of the last call (null
\* when N = 0) and no other field has changed.
C9_UsageCountsCalls ==
  track # <<>> =>
    LET tr == track[1]
        tpl == templates[tr.idx]
    IN /\ tpl.usageCount = tr.n
       /\ tpl.lastUsed = tr.lastT
       /\ \A k \in Keys \ {"usageCount", "lastUsed"} : tpl[k] = tr.created[k]

(* ------------------------------- C2 ------------------------------------ *)
\* the last operation imported the exported file into an empty collection
\* without overwriting
RoundTrip ==
  /\ last.op = "import"
  /\ file # <<>>
  /\ last.payload = file[1]
  /\ ~last.overwrite
  /\ pre = <<>>

\* the exported templates that are the first with their (name, endpoint)
Firsts(orig) ==
  {i \in 1..Len(orig) : \A j \in 1..(i - 1) : KeyOf(orig[j]) # KeyOf(orig[i])}

\* the value a string slot of an exported template has after the import
Defaulted(o, k, d) ==
  IF IsUndefined(o, k) \/ Get(o, k) = "" THEN d ELSE o[k]

\* C2 as stated: exportTemplates followed by importTemplates of the payload
\* into an empty store with overwrite=false reproduces the collection: the
\* same number of templates and, for each, the same field values except id.
C2_RoundTripReproduces ==
  RoundTrip =>
    LET orig == file[1].templates
    IN /\ Len(templates) = Len(orig)
       /\ \A i \in 1..Len(orig) :
            \A k \in Keys \ {"id"} : SameField(templates[i], orig[i], k)

\* C2 amended: the round trip yields, in the original order, one template
\* for each exported template that is the first with its (name, endpoint);
\* it has the same name, endpoint and data, the original description and
\* method where these are non-empty and '' and 'POST' otherwise,
\* usageCount 0, lastUsed null and createdAt = updatedAt = the import time;
\* the later templates with an (name, endpoint) seen before are skipped.
C2_RoundTripFirstsReset ==
  RoundTrip =>
    LET orig == file[1].templates
        firsts == Firsts(orig)
        rank(i) == Cardinality({j \in firsts : j <= i})
    IN /\ Len(templates) = Cardinality(firsts)
       /\ last.imported = Cardinality(firsts)
       /\ last.skipped = Len(orig) - Cardinality(firsts)
       /\ \A i \in firsts :
            LET n == templates[rank(i)]
            IN /\ n.name = orig[i].name
               /\ n.endpoint = orig[i].endpoint
               /\ n.data = orig[i].data
               /\ n.description = Defaulted(orig[i], "description", "")
               /\ n.method = Defaulted(orig[i], "method", "POST")
               /\ n.usageCount = 0
               /\ n.lastUsed = Null
               /\ n.createdAt = now
               /\ n.updatedAt = now

\* three templates were exported, two of them with the same
\* (name, endpoint); the import into the emptied collection kept two
C2_Witness ==
  /\ RoundTrip
  /\ Len(file[1].templates) = 3
  /\ Len(templates) = 2
  /\ last.skipped = 1

(* ------------------------------- C10 ----------------------------------- *)
\* C10: a load action (loadTemplate, or loadTemplateAndNavigate on the
\* target page or navigating to it) that loads the template into a form
\* increases its usageCount by exactly 1; one that does not (template not
\* found, no form for its endpoint) leaves every usageCount unchanged.
C10_OneIncrementPerLoad ==
  last.op \in {"loadTemplate", "loadTemplateAndNavigate"} =>
    /\ Len(templates) = Len(pre)
    /\ IF last.outcome \in {"loaded", "navigated"}
       THEN UsageAt(templates, last.found) = UsageAt(pre, last.found) + 1
       ELSE \A j \in 1..Len(pre) : UsageAt(templates, j) = UsageAt(pre, j)

(* ------------------------------- C11 ----------------------------------- *)
\* C11: in every reachable state of the manager no two templates of the
\* collection have the same id.
C11_IdsUnique ==
  \A i, j \in 1..Len(templates) :
    i # j => templates[i].id # templates[j].id

(* ------------------------------- C12 ----------------------------------- *)
\* C12: the id of a template never changes while the template is in the
\* collection: after updateTemplate with any partial fields, incrementUsage
\* or importTemplates, every template that was in the collection is at its
\* position with the id it had.
C12_IdImmutable ==
  last.op \in {"update", "increment", "import"} =>
    /\ Len(templates) >= Len(pre)
    /\ \A j \in 1..Len(pre) : templates[j].id = pre[j].id

(* ------------------------------- C13 ----------------------------------- *)
\* the manager before the last operation
PreMgr == [tpls |-> pre, st |-> preStore]

\* the collection the last operation leaves when its write succeeds
MemoryWhenSaved ==
  CASE last.op = "add" -> addTemplate(PreMgr, last.ret, TRUE).tpls
    [] last.op = "update" ->
         updateTemplate(PreMgr, last.id, last.updates, now, TRUE).tpls
    [] last.op = "delete" -> deleteTemplate(PreMgr, last.id, TRUE).tpls
    [] last.op = "increment" -> incrementUsage(PreMgr, last.id, now, TRUE).tpls
    [] last.op = "clear" -> clearAllTemplates(PreMgr, TRUE).tpls
    [] OTHER -> templates

\* what the caller of the last operation gets back when its write succeeds
ReturnWhenSaved ==
  CASE last.op = "add" -> addTemplateReturns(PreMgr, last.ret, TRUE)
    [] last.op = "update" ->
         updateTemplateReturns(PreMgr, last.id, last.updates, now, TRUE)
    [] last.op = "delete" -> deleteTemplateReturns(PreMgr, last.id, TRUE)

\* C13: when the storage write of a mutating operation fails, the in-memory
\* change is kept, the store keeps its previous content, and the failure is
\* reported to the caller: what addTemplate, updateTemplate or
\* deleteTemplate gives back differs from what it gives back when the write
\* succeeds.
C13_SaveFailureReported ==
  LastSaved = "failed" =>
    /\ templates = MemoryWhenSaved
    /\ store = preStore
    /\ Has(last, "ret") => last.ret # ReturnWhenSaved

(* ------------------------------- C14 ----------------------------------- *)
\* the collection a constructor builds from a stored list of records: the
\* records in order, usageCount 0 and lastUsed null where missing
HoldsStoredRecords(doc) ==
  /\ Len(templates) = Len(doc)
  /\ \A i \in 1..Len(doc) :
       /\ DOMAIN templates[i] = DOMAIN doc[i] \cup {"usageCount", "lastUsed"}
       /\ \A k \in DOMAIN doc[i] : templates[i][k] = doc[i][k]
       /\ ~Has(doc[i], "usageCount") => templates[i].usageCount = 0
       /\ ~Has(doc[i], "lastUsed") => templates[i].lastUsed = Null

\* C14: constructing a manager never fails: the collection is empty when
\* the stored value is absent, is not parseable or is not a list (and also
\* when it is a list with a null element, which ends in the same catch);
\* for a list of records the collection holds the stored records in order,
\* with usageCount 0 and lastUsed null where they are missing.
C14_ConstructNeverFails ==
  last.op = "construct" =>
    IF store = <<>> \/ ~IsList(store[1]) THEN templates = <<>>
    ELSE IF \E i \in 1..Len(store[1]) : store[1][i] = NullEntry
         THEN templates = <<>>
         ELSE HoldsStoredRecords(store[1])

\* a manager was constructed from a list of two records, one of them
\* without the usage fields
C14_Witness ==
  /\ last.op = "construct"
  /\ store # <<>>
  /\ IsList(store[1])
  /\ Len(templates) = 2
  /\ ~Has(store[1][2], "usageCount")
  /\ templates[2].usageCount = 0

(* ------------------------------- C15 ----------------------------------- *)
\* C15: updateTemplate, deleteTemplate and incrementUsage with an id that is
\* not in the collection return the not-found signal (false for update and
\* delete, nothing for incrementUsage), write nothing and leave the
\* collection and the store unchanged.
C15_UnknownIdNoOp ==
  (last.op \in {"update", "delete", "increment"}
   /\ last.id \notin KnownIds(pre)) =>
    /\ templates = pre
    /\ store = preStore
    /\ last.saved = "none"
    /\ IF last.op = "increment" THEN ~Has(last, "ret") ELSE last.ret = FALSE

\* deleteTemplate was called with an unknown id on a collection that is not
\* empty
C15_Witness ==
  /\ last.op = "delete"
  /\ last.id = UnknownId
  /\ Len(pre) >= 1
  /\ store # <<>>

(* ------------------------------- C16 ----------------------------------- *)
\* the lower-cased query is a substring of the lower-cased name, description
\* or endpoint
Matches(tpl, query) ==
  \E k \in {"name", "description", "endpoint"} :
    /\ IsString(Get(tpl, k))
    /\ includes(toLowerCase(tpl[k]), toLowerCase(query))

\* C16: for every collection and every query string searchTemplates returns
\* exactly the templates for which the lower-cased query is a substring of
\* the lower-cased name, description or endpoint, in collection order, and
\* leaves the collection as it is.
C16_SearchReturnsMatches ==
  last.op = "search" =>
    LET Test(tpl) == Matches(tpl, last.query)
    IN /\ ~last.thrown
       /\ last.result = SelectSeq(templates, Test)
       /\ templates = pre

(* ------------------------------- C17 ----------------------------------- *)
\* the last operation mutated the manager while a caller held the list
MutatedWhileHeld ==
  /\ held # <<>>
  /\ last.op \in {"add", "update", "delete", "increment", "clear"}

\* what the caller reads now in the array it holds
HeldNow == View(held[1].cells, templates)

\* C17 as stated: the sequence returned by getAllTemplates and the records
\* in it do not change when the manager is afterwards mutated by
\* addTemplate, updateTemplate, deleteTemplate, incrementUsage or
\* clearAllTemplates, and adding or removing elements of the returned
\* sequence does not change the manager's collection.
C17_SnapshotUnchanged ==
  /\ MutatedWhileHeld => HeldNow = held[1].before
  /\ last.op = "caller" => templates = pre /\ store = preStore

\* C17 amended: getAllTemplates returns a new array of the manager's record
\* objects.  The returned sequence keeps its elements, and its records keep
\* their values, under addTemplate, updateTemplate, deleteTemplate and
\* clearAllTemplates; incrementUsage writes into the record, so the element
\* of the returned sequence that is the template it counts shows
\* usageCount + 1 and the new lastUsed, and the other elements are
\* unchanged.  Adding or removing elements of the returned sequence does
\* not change the manager's collection.
C17_ShallowCopy ==
  /\ MutatedWhileHeld =>
       /\ Len(HeldNow) = Len(held[1].before)
       /\ \A i \in 1..Len(HeldNow) :
            IF last.op = "increment" /\ last.found # 0
               /\ held[1].cells[i].pos = last.found
            THEN HeldNow[i] = [held[1].before[i] EXCEPT
                                 !.usageCount = @ + 1, !.lastUsed = now]
            ELSE HeldNow[i] = held[1].before[i]
  /\ last.op = "caller" => templates = pre /\ store = preStore

\* incrementUsage counted a template that is the second element of a list a
\* caller holds
C17_Witness ==
  /\ MutatedWhileHeld
  /\ last.op = "increment"
  /\ last.found = 2
  /\ Len(held[1].cells) >= 2
  /\ held[1].cells[2].pos = 2
  /\ HeldNow[2].usageCount = held[1].before[2].usageCount + 1

(* ------------------------------- C18 ----------------------------------- *)
\* the last event was a request for a language change
Requested == last.op \in {"changeLanguage", "click"}

\* C18: while a change is in flight (isChangingLanguage is set and the
\* change awaits the translation update) every further request, by a call
\* or a click and for any code, is skipped: the current language, the
\* stored preference and what has been emitted stay as they were, and at
\* most one change is in flight at any time.
C18_InFlightRequestsSkipped ==
  /\ Len(coordinator.inFlight) <= 1
  /\ (Requested /\ last.before.isChangingLanguage) =>
       /\ coordinator.currentLanguage = last.before.currentLanguage
       /\ coordinator.stored = last.before.stored
       /\ coordinator.emitted = last.before.emitted
       /\ coordinator = last.before

\* a call for another supported language arrived while a change was
\* awaiting the translation update
C18_Witness ==
  /\ last.op = "changeLanguage"
  /\ last.before.isChangingLanguage
  /\ last.before.inFlight # <<>>
  /\ last.code \in SupportedLanguages
  /\ last.code # last.before.currentLanguage

(* ------------------------------- C19 ----------------------------------- *)
\* how many times something was emitted
Emitted(what) ==
  Cardinality({i \in 1..Len(coordinator.emitted) :
                 coordinator.emitted[i].what = what})

\* the last request was accepted: it went past the three returns
Accepted == Requested /\ coordinator.accepted = last.before.accepted + 1

\* C19: each accepted change updates the stored preference and emits
\* exactly one notification followed by exactly one languageChanged event,
\* each rejected request emits neither, and once the coordinator is idle the
\* numbers of notifications, of events and of accepted changes are equal.
C19_OneConfirmationPerChange ==
  /\ ~coordinator.isChangingLanguage =>
       /\ Emitted("notification") = coordinator.accepted
       /\ Emitted("languageChanged") = coordinator.accepted
  /\ \A i \in 1..Len(coordinator.emitted) :
       coordinator.emitted[i].what =
         (IF i % 2 = 1 THEN "notification" ELSE "languageChanged")
  /\ Accepted => coordinator.stored = <<last.code>>
  /\ (Requested /\ ~Accepted) => coordinator.emitted = last.before.emitted

(* ------------------------------- C20 ----------------------------------- *)
\* the last request came sooner than the window after the start of the
\* previous accepted change
TooSoon ==
  /\ Requested
  /\ last.before.accepted > 0
  /\ now - last.before.lastChangeTime < DebounceWindow

\* C20 as stated: any two accepted changes, requested by a dropdown click or
\* by a direct changeLanguage call, start at least the window (500 ms)
\* apart: a request that arrives sooner is rejected.
C20_MinimumInterval == TooSoon => ~Accepted

\* C20 amended: the window is enforced for dropdown clicks: a click that
\* arrives sooner than 500 ms after the start of the previous accepted
\* change, for the same or a different language, leaves the coordinator as
\* it was.  A direct changeLanguage call is not held back by the window.
C20_ClickWindow ==
  (TooSoon /\ last.op = "click") => coordinator = last.before

\* a click for another supported language came 499 ms after a change that
\* had already ended
C20_Witness ==
  /\ TooSoon
  /\ last.op = "click"
  /\ now - last.before.lastChangeTime = DebounceWindow - 1
  /\ ~last.before.isChangingLanguage
  /\ last.code \in SupportedLanguages
  /\ last.code # last.before.currentLanguage

(* ------------------------------- C21 ----------------------------------- *)
\* C21: changeLanguage called with a code outside the three supported codes,
\* or with the current language, changes nothing: the current language, the
\* stored preference, the in-flight flag and the last-change time are as
\* before and nothing is emitted.
C21_InvalidOrSameIsNoOp ==
  (/\ last.op = "changeLanguage"
   /\ \/ last.code \notin SupportedLanguages
      \/ last.code = last.before.currentLanguage)
  => coordinator = last.before

(* ------------------------------- C22 ----------------------------------- *)
\* C22: the coordinator's current language is always one of the three
\* supported codes, and while no change is in flight a stored preference,
\* when there is one, is a supported code and is the current language.
C22_LanguageSupportedAndStored ==
  /\ coordinator.currentLanguage \in SupportedLanguages
  /\ (~coordinator.isChangingLanguage /\ coordinator.stored # <<>>)
     => /\ coordinator.stored[1] \in SupportedLanguages
        /\ coordinator.stored[1] = coordinator.currentLanguage

(* ------------------------------- C23 ----------------------------------- *)
\* C23: every request of makeRequest is bounded by the timeout: it has
\* ended, with the whole response or with an error, by the time the timeout
\* has passed since it was made, an abort at the timeout gives the code
\* TIMEOUT, and no request is pending after that.
C23_RequestBoundedByTimeout ==
  \A i \in 1..Len(requests) :
    LET r == requests[i]
    IN /\ r.phase # "done" => now <= Deadline(r)
       /\ r.phase = "done" => r.ended <= Deadline(r)
       /\ (r.phase = "done" /\ r.ended = Deadline(r)) => r.outcome = "TIMEOUT"

(* ------------------------------- C24 ----------------------------------- *)
\* the keys of a payload text, in the order in which they stand
KeysIn(text) ==
  LET at == { i \in 1..Len(text) :
                /\ i < Len(text) /\ text[i + 1] = ":"
                /\ (i = 1 \/ text[i - 1] = "|") }
      RECURSIVE Walk(_)
      Walk(i) == IF i > Len(text) THEN <<>>
                 ELSE (IF i \in at THEN <<text[i]>> ELSE <<>>) \o Walk(i + 1)
  IN Walk(1)

\* the fields of the form data that are filled in, in the fixed order
SetFields(formData) ==
  LET RECURSIVE Walk(_)
      Walk(i) == IF i > Len(PayloadFields) THEN <<>>
                 ELSE (IF FieldIsSet(formData, PayloadFields[i])
                       THEN <<PayloadFields[i]>> ELSE <<>>) \o Walk(i + 1)
  IN Walk(1)

\* the text is KEY:VALUE pairs joined by '|': no '|' at either end and no
\* empty pair
WellDelimited(text) ==
  /\ text # <<>> => (text[1] # "|" /\ text[Len(text)] # "|")
  /\ \A i \in 1..Len(text) - 1 : ~(text[i] = "|" /\ text[i + 1] = "|")

\* every line break of the text is one CR followed by one LF
LineBreaksAreCRLF(text) ==
  \A i \in 1..Len(text) :
    /\ text[i] = LF => (i > 1 /\ text[i - 1] = CR)
    /\ text[i] = CR => (i < Len(text) /\ text[i + 1] = LF)

\* C24: for form data without qrText, prepareTextRequestData returns the
\* filled-in fields in the order K, V, C, R, N, I, P, SF, S, RO as KEY:VALUE
\* pairs joined by '|', with no '|' at either end and no empty pair, and
\* with every line break of a value turned into CRLF, whatever line break
\* the value had.
C24_PayloadText ==
  (last.op = "prepareText" /\ "qrText" \notin DOMAIN last.formData)
  => /\ KeysIn(last.ret) = SetFields(last.formData)
     /\ WellDelimited(last.ret)
     /\ LineBreaksAreCRLF(last.ret)

(* ------------------------------- C25 ----------------------------------- *)
\* the collection of the tab that ran the last operation
Writer == IF Has(last, "tab") THEN other ELSE templates

\* the collection of the tab that did not
Reader == IF Has(last, "tab") THEN templates ELSE other

\* the ids of the records of a collection
IdsOf(tpls) == {tpls[i].id : i \in 1..Len(tpls)}

\* C25 as stated: with two tabs over one store, after any mutation by one
\* tab, whether or not its write succeeded, the stored document is that
\* tab's collection.
C25_LastMutationWins ==
  LastSaved # "none" => SameCollection(loadTemplates(store), Writer)

\* C25 amended: with two tabs over one store there is no merge and the last
\* write wins: after a mutation by one tab whose storage write succeeded the
\* stored document is that tab's collection, so it holds no record that
\* only the other tab had.
C25_LastWriteWins ==
  LastSaved = "ok" =>
    /\ SameCollection(loadTemplates(store), Writer)
    /\ IdsOf(loadTemplates(store)) = IdsOf(Writer)

\* a tab saved its collection over a template that the other tab had stored
\* and that it had never loaded
C25_Witness ==
  /\ LastSaved = "ok"
  /\ \E id \in IdsOf(Reader) :
       /\ id \in IdsOf(loadTemplates(preStore))
       /\ id \notin IdsOf(Writer)
       /\ id \notin IdsOf(loadTemplates(store))

(* ------------------------------- C26 ----------------------------------- *)
\* the number of templates of the collection with the name
CountName(tpls, name) ==
  Cardinality({i \in 1..Len(tpls) : tpls[i].name = name})

\* C26: starting from an empty collection, after any sequence of UI actions
\* (save with the replace prompt confirmed or declined, rename through the
\* edit form, duplicate, delete) every template has a non-empty name and no
\* two templates have the same name; a confirmed replace leaves exactly one
\* template with the name and a declined replace leaves the collection as
\* it was.
C26_NamesUniqueInUI ==
  /\ \A i \in 1..Len(templates) : templates[i].name # ""
  /\ \A i, j \in 1..Len(templates) :
       i # j => templates[i].name # templates[j].name
  /\ (last.op = "uiSave" /\ last.found # 0 /\ last.confirmed)
       => CountName(templates, last.name) = 1
  /\ (last.op = "uiSave" /\ last.found # 0 /\ ~last.confirmed)
       => templates = pre

(* ------------------------------- C27 ----------------------------------- *)
\* C27: an accepted change always comes back to Idle (isChangingLanguage
\* false), also when the translation update throws, given that the pending
\* load of the translations settles; and whenever the coordinator is Idle, a
\* changeLanguage for another supported language is accepted.
C27_BackToIdle ==
  /\ coordinator.isChangingLanguage ~> ~coordinator.isChangingLanguage
  /\ [](~coordinator.isChangingLanguage =>
          \A code \in SupportedLanguages \ {coordinator.currentLanguage},
             ok \in BOOLEAN, hasI18n \in BOOLEAN :
            changeLanguage(coordinator, code, now, ok, hasI18n).accepted
              = coordinator.accepted + 1)

\* the translation update of a change in flight threw, and the coordinator
\* is Idle with the new language
C27_Witness ==
  /\ last.op = "settle"
  /\ last.outcome = "rejected"
  /\ last.before.isChangingLanguage
  /\ ~coordinator.isChangingLanguage
  /\ coordinator.currentLanguage \in SupportedLanguages
  /\ coordinator.currentLanguage # DEFAULT_LANGUAGE

(* ------------------------------- C28 ----------------------------------- *)
\* C28: when calls of I18n.changeLanguage for supported languages overlap,
\* then once all of them have ended the I18n current language and the
\* stored preference are the language of the call issued last.
C28_LastIssuedWins ==
  (i18n.pending = <<>> /\ i18n.issued # <<>>)
  => /\ i18n.currentLanguage = i18n.issued[1]
     /\ i18n.stored = i18n.issued

(* ------------------------------- C29 ----------------------------------- *)
\* C29: whenever no change is in flight the language the API script reads
\* is the coordinator's current language, so a request made through
\* makeAPICall, generateQRImage, generateQRWithResponse, validateQRText or
\* uploadQRImage after a completed change to L carries lang = L.
C29_ApiLanguageFollows ==
  ~coordinator.isChangingLanguage =>
    /\ ApiCurrentLanguage = coordinator.currentLanguage
    /\ last.op = "apiCall" => last.lang = coordinator.currentLanguage

(* ------------------------------- C30 ----------------------------------- *)
\* C30: in every state reached from an empty store by addTemplate with a
\* string description, updateTemplate of the name or the description,
\* incrementUsage, deleteTemplate and importTemplates (overwriting or not)
\* of well-formed entries with or without a description, the description of
\* every template is a string, so that searchTemplates returns a result
\* for every query instead of failing.
C30_DescriptionIsString ==
  /\ \A i \in 1..Len(templates) : IsString(Get(templates[i], "description"))
  /\ last.op = "search" => ~last.thrown

====
